---- MODULE Spec2Model ----
(***************************************************************************)
(* A model of abstractions.async_abstractions.run_bounded: one producer    *)
(* task, `limit` consumer (worker) tasks, the send_complete task and the   *)
(* gen_results loop, communicating through task_q (bounded), result_q      *)
(* (unbounded) and consumer_sema.  Every await of the source that can      *)
(* suspend is a separate step; code that runs between two suspension       *)
(* points without awaiting anything that can block is one atomic step.     *)
(* Spec and FairSpec are run_bounded alone; SpecClose adds the caller     *)
(* closing the outcome sequence; SpecSync is run_bounded with a source     *)
(* that yields without suspending.  SpecMap is the resumable mapping       *)
(* pipeline map_by_key calling run_bounded, run after run, with crashes;   *)
(* SpecGen is the resumable generation pipeline create_or_resume, built    *)
(* the same way; SpecCache is the disk_cache block.                        *)
(***************************************************************************)
EXTENDS Naturals, Integers, Sequences, FiniteSets, TLC

\* Bounds of the model.
MaxLimit == 2
MaxOps == 3
\* Bounds of the map_by_key runs: num_concurrent, input records, calls.
MaxConcurrent == 2
MaxKeys == 2
MaxRuns == 2
\* Bound of the create_or_resume runs: target_count_per_key.
MaxTarget == 2
\* Bounds of the disk_cache executions: block executions, the values a
\* name can be bound to (0..MaxValue), statements of one block body.
MaxExecs == 3
MaxValue == 1
MaxBodySteps == 2

VARIABLES
    limit,           \* the limit argument of run_bounded
    tasks,           \* the source: the sequence of operations it yields
    fails,           \* the operations that raise an Exception when awaited
    fetched,         \* how many items the producer has received from the source
    pcProducer,      \* "start", "fetch", "acquire", "put", "sentinels", "done"
    coroutine,       \* the operation the producer holds (0: none)
    sentinels_put,   \* how many complete_sentinels the producer has enqueued
    consumer_sema,   \* value of asyncio.Semaphore(limit)
    task_q,          \* asyncio.Queue(limit): operations and sentinels
    pcConsumer,      \* per worker: "acquire", "get", "run", "done", "failed"
    running,         \* per worker: the operation it awaits (0: none)
    result_q,        \* asyncio.Queue(): outcomes and the end-of-stream marker
    pcSendComplete,  \* "gather", "done"
    delivered,       \* the outcomes gen_results has yielded, in order
    ended,           \* the outcome sequence has ended (gen_results broke)
    aborted,         \* an exception escaped a task of the TaskGroup
    startCount,      \* per operation: how many times a worker began awaiting it
    finished,        \* the operations whose await has returned or raised
    finBefore,       \* per operation: the operations finished when it started
    input,           \* map_by_key: the keys of the input file's records, in order
    output,          \* map_by_key: the records of the output file, in order
    on_error,        \* map_by_key: "raise" or "print"
    seen,            \* map_by_key: the keys found in the output file by the audit
    errors,          \* map_by_key: the keys whose failure was collected
    mapState,        \* map_by_key: "none", "idle", "running", "returned", "raised"
    runs,            \* map_by_key: how many runs have been started
    crashes,         \* map_by_key: how many of them were cut off by a crash
    closed,          \* the TaskGroup was told to shut down (aclose, or the
                     \*   caller cancelled while waiting for an outcome)
    cancelled,       \* the operations cancelled while a worker awaited them
    close_error,     \* what the caller's last call into the generator
                     \*   raised ("none": nothing yet)
    close_cause,     \* "none", "aclose" (GeneratorExit at the yield),
                     \*   "cancel" (CancelledError in result_q.get())
    must_cancel,     \* the tasks whose cancellation was requested and that
                     \*   have not run since: their CancelledError is pending
    swallows,        \* the operations that catch CancelledError and return
    key_source,      \* create_or_resume: the expected key values, in order
    target_count_per_key, \* create_or_resume: records wanted per key
    new_value_counts,\* create_or_resume: the plan, <<key, deficit>> pairs
    genState,        \* create_or_resume: "none", "idle", "running",
                     \*   "returned", "raised", "fatal"
    initFile,        \* create_or_resume: the file before the first run
    fileAtStart,     \* create_or_resume: the file when the current run began
    prevClean,       \* create_or_resume: the run before the current one
                     \*   returned and none of its operations failed
    cache_exists,    \* disk_cache: the file at path exists
    cache_record,    \* disk_cache: its content, names to serialized values
    bindings,        \* disk_cache: the caller's names and their values
    locals_before,   \* disk_cache: the bindings when the block was entered
    cachePc,         \* disk_cache: "none", "out" (outside the block), "body"
    steps,           \* disk_cache: statements of the body executed so far
    calls,           \* disk_cache: the call counter of the computations
    callsAtEnter,    \* disk_cache: the call counter when the block was entered
    execs,           \* disk_cache: block executions started
    lastExec,        \* disk_cache: how the last execution went: "none",
                     \*   "computed", "restored", "raised"
    writes,          \* disk_cache: writes of the record since it was absent
    raised           \* disk_cache: executions that raised

vars == <<limit, tasks, fails, fetched, pcProducer, coroutine, sentinels_put,
          consumer_sema, task_q, pcConsumer, running, result_q, pcSendComplete,
          delivered, ended, aborted, startCount, finished, finBefore,
          input, output, on_error, seen, errors, mapState, runs, crashes,
          closed, cancelled, close_error, close_cause, must_cancel, swallows,
          key_source, target_count_per_key, new_value_counts, genState,
          initFile, fileAtStart, prevClean,
          cache_exists, cache_record, bindings, locals_before, cachePc, steps,
          calls, callsAtEnter, execs, lastExec, writes, raised>>

producerVars == <<fetched, pcProducer, coroutine, sentinels_put>>
historyVars == <<startCount, finished, finBefore>>
inputVars == <<limit, tasks, fails>>
mapVars == <<input, output, on_error, seen, errors, mapState, runs, crashes>>
closeVars == <<closed, cancelled, close_error, close_cause, must_cancel,
              swallows>>
\* What the tasks of run_bounded and the steps of map_by_key never touch.
genVars == <<key_source, target_count_per_key, new_value_counts, genState,
            initFile, fileAtStart, prevClean>>
cacheVars == <<cache_exists, cache_record, bindings, locals_before, cachePc,
              steps, calls, callsAtEnter, execs, lastExec, writes, raised>>
extVars == <<closeVars, genVars, cacheVars>>

\* The names a block can bind, and the marker of a name that is not bound.
Names == {"a", "b"}
Unbound == -1
NoBindings == [n \in Names |-> Unbound]

\* disk_cache is not in use.
CacheIdle ==
    /\ cache_exists = FALSE
    /\ cache_record = <<>>
    /\ bindings = NoBindings
    /\ locals_before = NoBindings
    /\ cachePc = "none"
    /\ steps = 0
    /\ calls = 0
    /\ callsAtEnter = 0
    /\ execs = 0
    /\ lastExec = "none"
    /\ writes = 0
    /\ raised = 0

\* The operations of the model: identities 1..MaxOps.
Ops == 1..MaxOps

\* complete_sentinel: a unique object, distinct from every operation/outcome.
complete_sentinel == 0
ResultSentinel == [op |-> 0, tag |-> "Sentinel"]

\* The tasks of the TaskGroup: the producer, worker w (w itself) and
\* send_complete, in the order the main body creates them.
ProducerTask == 0
SendCompleteTask == MaxLimit + 1

\* The workers created by the main body: range(limit).
Workers == 1..limit

\* maxsize of task_q.
maxsizeOffByOne == limit + 1
maxsize == limit

\* The outcome a worker publishes for operation o: a Future holding the
\* result, or the exception the operation raised.
Outcome(o) == [op |-> o, tag |-> IF o \in fails THEN "Err" ELSE "Ok"]

\* The operations of a sequence of task_q items / of outcomes.
RECURSIVE SeqToSet(_)
SeqToSet(s) == IF s = <<>> THEN {} ELSE {Head(s)} \cup SeqToSet(Tail(s))

\* The state after run_bounded has created its queues, semaphore and
\* tasks, for every input but the behaviour of the operations under
\* cancellation.
InitRun ==
    /\ limit \in 1..MaxLimit
    /\ \E n \in 0..MaxOps : tasks = [i \in 1..n |-> i]
    /\ fails \in SUBSET SeqToSet(tasks)
    /\ fetched = 0
    /\ pcProducer = "start"
    /\ coroutine = 0
    /\ sentinels_put = 0
    /\ consumer_sema = limit
    /\ task_q = <<>>
    /\ pcConsumer = [w \in Workers |-> "acquire"]
    /\ running = [w \in Workers |-> 0]
    /\ result_q = <<>>
    /\ pcSendComplete = "gather"
    /\ delivered = <<>>
    /\ ended = FALSE
    /\ aborted = FALSE
    /\ startCount = [o \in Ops |-> 0]
    /\ finished = {}
    /\ finBefore = [o \in Ops |-> {}]
    /\ input = <<>>
    /\ output = <<>>
    /\ on_error = "raise"
    /\ seen = {}
    /\ errors = {}
    /\ mapState = "none"
    /\ runs = 0
    /\ crashes = 0
    /\ closed = FALSE
    /\ cancelled = {}
    /\ close_error = "none"
    /\ close_cause = "none"
    /\ must_cancel = {}
    /\ key_source = <<>>
    /\ target_count_per_key = 1
    /\ new_value_counts = <<>>
    /\ genState = "none"
    /\ initFile = <<>>
    /\ fileAtStart = <<>>
    /\ prevClean = FALSE
    /\ CacheIdle

\* No task is cancelled in the runs that start here: how the operations
\* react to cancellation does not matter.
Init ==
    /\ InitRun
    /\ swallows = {}

----------------------------------------------------------------------------
\* producer

\* The producer task runs for the first time and enters `async for
\* coroutine in tasks`, which asks the source for its first item.
P_start ==
    /\ ~aborted
    /\ ProducerTask \notin must_cancel
    /\ pcProducer = "start"
    /\ pcProducer' = "fetch"
    /\ UNCHANGED <<mapVars, extVars>>
    /\ UNCHANGED <<inputVars, fetched, coroutine, sentinels_put, consumer_sema,
                   task_q, pcConsumer, running, result_q, pcSendComplete,
                   delivered, ended, aborted, historyVars>>

\* `async for coroutine in tasks`: the source answers the request, with its
\* next item, or with its exhaustion and the producer goes on to the
\* sentinel loop.
P_fetch ==
    /\ ~aborted
    /\ ProducerTask \notin must_cancel
    /\ pcProducer = "fetch"
    /\ IF fetched < Len(tasks)
       THEN /\ fetched' = fetched + 1
            /\ coroutine' = tasks[fetched + 1]
            /\ pcProducer' = "acquire"
            /\ UNCHANGED sentinels_put
       ELSE /\ pcProducer' = "sentinels"
            /\ UNCHANGED <<fetched, coroutine, sentinels_put>>
    /\ UNCHANGED <<mapVars, extVars>>
    /\ UNCHANGED <<inputVars, consumer_sema, task_q, pcConsumer, running,
                   result_q, pcSendComplete, delivered, ended, aborted,
                   historyVars>>

\* A producer that enqueues without waiting for a permit of consumer_sema.
P_acquire_NoWait ==
    /\ ~aborted
    /\ ProducerTask \notin must_cancel
    /\ pcProducer = "acquire"
    /\ consumer_sema' = consumer_sema - 1
    /\ pcProducer' = "put"
    /\ UNCHANGED <<mapVars, extVars>>
    /\ UNCHANGED <<inputVars, fetched, coroutine, sentinels_put, task_q,
                   pcConsumer, running, result_q, pcSendComplete, delivered,
                   ended, aborted, historyVars>>

\* `async with consumer_sema:` entered by the producer.
P_acquire ==
    /\ ~aborted
    /\ ProducerTask \notin must_cancel
    /\ pcProducer = "acquire"
    /\ consumer_sema > 0
    /\ consumer_sema' = consumer_sema - 1
    /\ pcProducer' = "put"
    /\ UNCHANGED <<mapVars, extVars>>
    /\ UNCHANGED <<inputVars, fetched, coroutine, sentinels_put, task_q,
                   pcConsumer, running, result_q, pcSendComplete, delivered,
                   ended, aborted, historyVars>>

\* A producer whose task_q was created without a maxsize.
P_put_Unbounded ==
    /\ ~aborted
    /\ ProducerTask \notin must_cancel
    /\ pcProducer = "put"
    /\ task_q' = Append(task_q, coroutine)
    /\ consumer_sema' = consumer_sema + 1
    /\ coroutine' = 0
    /\ pcProducer' = "fetch"
    /\ UNCHANGED <<mapVars, extVars>>
    /\ UNCHANGED <<inputVars, fetched, sentinels_put, pcConsumer, running,
                   result_q, pcSendComplete, delivered, ended, aborted,
                   historyVars>>

\* `await task_q.put(coroutine)`, leaving the `async with` (release) and
\* going back to the `async for`, which requests the next item.
P_put ==
    /\ ~aborted
    /\ ProducerTask \notin must_cancel
    /\ pcProducer = "put"
    /\ Len(task_q) < maxsize
    /\ task_q' = Append(task_q, coroutine)
    /\ consumer_sema' = consumer_sema + 1
    /\ coroutine' = 0
    /\ pcProducer' = "fetch"
    /\ UNCHANGED <<mapVars, extVars>>
    /\ UNCHANGED <<inputVars, fetched, sentinels_put, pcConsumer, running,
                   result_q, pcSendComplete, delivered, ended, aborted,
                   historyVars>>

\* A producer that enqueues a single sentinel, whatever the limit.
P_sentinel_Single ==
    /\ ~aborted
    /\ ProducerTask \notin must_cancel
    /\ pcProducer = "sentinels"
    /\ Len(task_q) < maxsize
    /\ task_q' = Append(task_q, complete_sentinel)
    /\ sentinels_put' = sentinels_put + 1
    /\ pcProducer' = "done"
    /\ UNCHANGED <<mapVars, extVars>>
    /\ UNCHANGED <<inputVars, fetched, coroutine, consumer_sema, pcConsumer,
                   running, result_q, pcSendComplete, delivered, ended,
                   aborted, historyVars>>

\* `for _ in range(limit): await task_q.put(complete_sentinel)`.
P_sentinel ==
    /\ ~aborted
    /\ ProducerTask \notin must_cancel
    /\ pcProducer = "sentinels"
    /\ Len(task_q) < maxsize
    /\ task_q' = Append(task_q, complete_sentinel)
    /\ sentinels_put' = sentinels_put + 1
    /\ pcProducer' = IF sentinels_put + 1 = limit THEN "done" ELSE "sentinels"
    /\ UNCHANGED <<mapVars, extVars>>
    /\ UNCHANGED <<inputVars, fetched, coroutine, consumer_sema, pcConsumer,
                   running, result_q, pcSendComplete, delivered, ended,
                   aborted, historyVars>>

----------------------------------------------------------------------------
\* consumer (the workers)

\* `async with consumer_sema:` entered by worker w.
W_acquire(w) ==
    /\ w \in Workers
    /\ ~aborted
    /\ w \notin must_cancel
    /\ pcConsumer[w] = "acquire"
    /\ consumer_sema > 0
    /\ consumer_sema' = consumer_sema - 1
    /\ pcConsumer' = [pcConsumer EXCEPT ![w] = "get"]
    /\ UNCHANGED <<mapVars, extVars>>
    /\ UNCHANGED <<inputVars, producerVars, task_q, running, result_q,
                   pcSendComplete, delivered, ended, aborted, historyVars>>

\* A worker that starts the operation as a task of its own and goes on
\* with its loop instead of awaiting it.
W_get_NoAwait(w) ==
    /\ w \in Workers
    /\ ~aborted
    /\ w \notin must_cancel
    /\ pcConsumer[w] = "get"
    /\ task_q # <<>>
    /\ task_q' = Tail(task_q)
    /\ consumer_sema' = consumer_sema + 1
    /\ IF Head(task_q) = complete_sentinel
       THEN /\ pcConsumer' = [pcConsumer EXCEPT ![w] = "done"]
            /\ UNCHANGED historyVars
       ELSE /\ pcConsumer' = [pcConsumer EXCEPT ![w] = "acquire"]
            /\ startCount' = [startCount EXCEPT ![Head(task_q)] = @ + 1]
            /\ finBefore' = [finBefore EXCEPT ![Head(task_q)] = finished]
            /\ UNCHANGED finished
    /\ UNCHANGED <<mapVars, extVars>>
    /\ UNCHANGED <<inputVars, producerVars, running, result_q,
                   pcSendComplete, delivered, ended, aborted>>

\* `coroutine = await task_q.get()`: on the sentinel the worker breaks out
\* of the loop (leaving the `async with` releases the semaphore); otherwise
\* it begins to await the operation.
W_get(w) ==
    /\ w \in Workers
    /\ ~aborted
    /\ w \notin must_cancel
    /\ pcConsumer[w] = "get"
    /\ task_q # <<>>
    /\ task_q' = Tail(task_q)
    /\ IF Head(task_q) = complete_sentinel
       THEN /\ consumer_sema' = consumer_sema + 1
            /\ pcConsumer' = [pcConsumer EXCEPT ![w] = "done"]
            /\ UNCHANGED <<running, historyVars>>
       ELSE /\ running' = [running EXCEPT ![w] = Head(task_q)]
            /\ pcConsumer' = [pcConsumer EXCEPT ![w] = "run"]
            /\ startCount' = [startCount EXCEPT ![Head(task_q)] = @ + 1]
            /\ finBefore' = [finBefore EXCEPT ![Head(task_q)] = finished]
            /\ UNCHANGED <<consumer_sema, finished>>
    /\ UNCHANGED <<mapVars, extVars>>
    /\ UNCHANGED <<inputVars, producerVars, result_q, pcSendComplete,
                   delivered, ended, aborted>>

\* A worker without the try/except around the await: the exception of a
\* failing operation escapes the worker task and the TaskGroup aborts.
W_finish_NoCatch(w) ==
    /\ w \in Workers
    /\ ~aborted
    /\ w \notin must_cancel
    /\ pcConsumer[w] = "run"
    /\ finished' = finished \cup {running[w]}
    /\ running' = [running EXCEPT ![w] = 0]
    /\ IF running[w] \in fails
       THEN /\ aborted' = TRUE
            /\ pcConsumer' = [pcConsumer EXCEPT ![w] = "failed"]
            /\ UNCHANGED <<result_q, consumer_sema>>
       ELSE /\ result_q' = Append(result_q, Outcome(running[w]))
            /\ consumer_sema' = consumer_sema + 1
            /\ pcConsumer' = [pcConsumer EXCEPT ![w] = "acquire"]
            /\ UNCHANGED aborted
    /\ UNCHANGED <<mapVars, extVars>>
    /\ UNCHANGED <<inputVars, producerVars, task_q, pcSendComplete, delivered,
                   ended, startCount, finBefore>>

\* The awaited operation returns or raises: the worker stores the value or
\* the exception in a Future, puts it on result_q (unbounded: never
\* blocks), releases the semaphore and loops.
W_finish(w) ==
    /\ w \in Workers
    /\ ~aborted
    /\ w \notin must_cancel
    /\ pcConsumer[w] = "run"
    /\ finished' = finished \cup {running[w]}
    /\ result_q' = Append(result_q, Outcome(running[w]))
    /\ running' = [running EXCEPT ![w] = 0]
    /\ consumer_sema' = consumer_sema + 1
    /\ pcConsumer' = [pcConsumer EXCEPT ![w] = "acquire"]
    /\ UNCHANGED <<mapVars, extVars>>
    /\ UNCHANGED <<inputVars, producerVars, task_q, pcSendComplete, delivered,
                   ended, aborted, startCount, finBefore>>

----------------------------------------------------------------------------
\* send_complete and gen_results

\* A send_complete that does not wait for the workers.
S_complete_NoGather ==
    /\ ~aborted
    /\ SendCompleteTask \notin must_cancel
    /\ pcSendComplete = "gather"
    /\ result_q' = Append(result_q, ResultSentinel)
    /\ pcSendComplete' = "done"
    /\ UNCHANGED <<mapVars, extVars>>
    /\ UNCHANGED <<inputVars, producerVars, consumer_sema, task_q, pcConsumer,
                   running, delivered, ended, aborted, historyVars>>

\* `await asyncio.gather(*workers)` returns once every worker has left its
\* loop; then the end-of-stream marker is put on result_q.
S_complete ==
    /\ ~aborted
    /\ SendCompleteTask \notin must_cancel
    /\ pcSendComplete = "gather"
    /\ \A w \in Workers : pcConsumer[w] = "done"
    /\ result_q' = Append(result_q, ResultSentinel)
    /\ pcSendComplete' = "done"
    /\ UNCHANGED <<mapVars, extVars>>
    /\ UNCHANGED <<inputVars, producerVars, consumer_sema, task_q, pcConsumer,
                   running, delivered, ended, aborted, historyVars>>

\* A gen_results reading result_q from the wrong end.
R_get_Lifo ==
    /\ ~aborted
    /\ ~closed
    /\ ~ended
    /\ result_q # <<>>
    /\ result_q' = SubSeq(result_q, 1, Len(result_q) - 1)
    /\ IF result_q[Len(result_q)] = ResultSentinel
       THEN /\ ended' = TRUE
            /\ UNCHANGED delivered
       ELSE /\ delivered' = Append(delivered, result_q[Len(result_q)])
            /\ UNCHANGED ended
    /\ UNCHANGED <<mapVars, extVars>>
    /\ UNCHANGED <<inputVars, producerVars, consumer_sema, task_q, pcConsumer,
                   running, pcSendComplete, aborted, historyVars>>

\* `r = await result_q.get()`: the marker ends the sequence, anything else
\* is yielded to the caller of run_bounded.
R_get ==
    /\ ~aborted
    /\ ~closed
    /\ ~ended
    /\ result_q # <<>>
    /\ result_q' = Tail(result_q)
    /\ IF Head(result_q) = ResultSentinel
       THEN /\ ended' = TRUE
            /\ UNCHANGED delivered
       ELSE /\ delivered' = Append(delivered, Head(result_q))
            /\ UNCHANGED ended
    /\ UNCHANGED <<mapVars, extVars>>
    /\ UNCHANGED <<inputVars, producerVars, consumer_sema, task_q, pcConsumer,
                   running, pcSendComplete, aborted, historyVars>>

\* The sequence has ended and nothing interrupts the exit of the TaskGroup:
\* the generator returns and the caller's call for the next outcome raises
\* StopAsyncIteration.
R_return ==
    /\ ~aborted
    /\ ended
    /\ ~closed
    /\ close_error = "none"
    /\ close_error' = "StopAsyncIteration"
    /\ UNCHANGED <<inputVars, producerVars, consumer_sema, task_q, pcConsumer,
                   running, result_q, pcSendComplete, delivered, ended,
                   aborted, historyVars, closed, cancelled, close_cause,
                   must_cancel, swallows, mapVars, genVars, cacheVars>>

----------------------------------------------------------------------------
Next ==
    \/ P_start
    \/ P_fetch
    \/ P_acquire
    \/ P_put
    \/ P_sentinel
    \/ \E w \in Workers : W_acquire(w)
    \/ \E w \in Workers : W_get(w)
    \/ \E w \in Workers : W_finish(w)
    \/ S_complete
    \/ R_get
    \/ R_return

Spec == Init /\ [][Next]_vars

\* Fair scheduling of the event loop: a task that stays ready is run, an
\* operation that is being awaited finishes, and the caller keeps draining.
FairSpec ==
    /\ Spec
    /\ WF_vars(P_start)
    /\ WF_vars(P_fetch)
    /\ WF_vars(P_acquire)
    /\ WF_vars(P_put)
    /\ WF_vars(P_sentinel)
    /\ \A w \in 1..MaxLimit : WF_vars(W_acquire(w))
    /\ \A w \in 1..MaxLimit : WF_vars(W_get(w))
    /\ \A w \in 1..MaxLimit : WF_vars(W_finish(w))
    /\ WF_vars(S_complete)
    /\ WF_vars(R_get)
    /\ WF_vars(R_return)

----------------------------------------------------------------------------
\* Closing the outcome sequence

\* The tasks of the TaskGroup that are not done.
Unfinished ==
    (IF pcProducer \in {"done", "cancelled"} THEN {} ELSE {ProducerTask})
    \cup {w \in Workers : pcConsumer[w] \notin {"done", "failed", "cancelled"}}
    \cup (IF pcSendComplete \in {"done", "cancelled"} THEN {}
          ELSE {SendCompleteTask})

\* The caller stops draining and closes the generator while it is suspended
\* at `yield item`: GeneratorExit is raised inside `async with
\* asyncio.TaskGroup()`, whose exit requests the cancellation of every task
\* that is not done and then waits for them.  A task whose cancellation was
\* requested takes no step of its own before it has received the
\* CancelledError.
Close ==
    /\ ~aborted
    /\ ~closed
    /\ ~ended
    /\ Len(delivered) >= 1
    /\ closed' = TRUE
    /\ close_cause' = "aclose"
    /\ must_cancel' = Unfinished
    /\ UNCHANGED <<inputVars, producerVars, consumer_sema, task_q, pcConsumer,
                   running, result_q, pcSendComplete, delivered, ended,
                   aborted, historyVars, cancelled, close_error, swallows,
                   mapVars, genVars, cacheVars>>

\* The task of the caller is cancelled inside its call for the next
\* outcome: the CancelledError is raised by `await result_q.get()` (an
\* outcome that was already queued stays on result_q), or, after the
\* end-of-stream marker, while the exit of the TaskGroup waits for its
\* tasks.  In both cases it is raised inside the TaskGroup, whose exit
\* requests the cancellation of every task that is not done, as in Close.
CancelCaller ==
    /\ ~aborted
    /\ ~closed
    /\ close_error = "none"
    /\ closed' = TRUE
    /\ close_cause' = "cancel"
    /\ must_cancel' = Unfinished
    /\ UNCHANGED <<inputVars, producerVars, consumer_sema, task_q, pcConsumer,
                   running, result_q, pcSendComplete, delivered, ended,
                   aborted, historyVars, cancelled, close_error, swallows,
                   mapVars, genVars, cacheVars>>

\* The producer receives its CancelledError at the await it is suspended
\* in; inside `async with consumer_sema` (at the put of an operation) it
\* gives its permit back on the way out.
Cancel_producer ==
    /\ ProducerTask \in must_cancel
    /\ must_cancel' = must_cancel \ {ProducerTask}
    /\ pcProducer' = "cancelled"
    /\ consumer_sema' = IF pcProducer = "put"
                        THEN consumer_sema + 1 ELSE consumer_sema
    /\ UNCHANGED <<inputVars, fetched, coroutine, sentinels_put, task_q,
                   pcConsumer, running, result_q, pcSendComplete, delivered,
                   ended, aborted, historyVars, closed, cancelled,
                   close_error, close_cause, swallows,
                   mapVars, genVars, cacheVars>>

\* Worker w receives its CancelledError.  Waiting for a permit it holds
\* none; at task_q.get() it leaves the `async with` and gives its permit
\* back; awaiting an operation, the CancelledError is raised inside the
\* operation: `except Exception` does not catch it and the worker ends as
\* at get(), unless the operation catches it and returns, and then the
\* worker goes on as after any operation (outcome on result_q, permit
\* back, next iteration).
Cancel_consumer(w) ==
    /\ w \in Workers
    /\ w \in must_cancel
    /\ must_cancel' = must_cancel \ {w}
    /\ IF pcConsumer[w] = "run"
       THEN /\ cancelled' = cancelled \cup {running[w]}
            /\ running' = [running EXCEPT ![w] = 0]
            /\ consumer_sema' = consumer_sema + 1
            /\ IF running[w] \in swallows
               THEN /\ finished' = finished \cup {running[w]}
                    /\ result_q' = Append(result_q, Outcome(running[w]))
                    /\ pcConsumer' = [pcConsumer EXCEPT ![w] = "acquire"]
               ELSE /\ pcConsumer' = [pcConsumer EXCEPT ![w] = "cancelled"]
                    /\ UNCHANGED <<finished, result_q>>
       ELSE /\ pcConsumer' = [pcConsumer EXCEPT ![w] = "cancelled"]
            /\ consumer_sema' = IF pcConsumer[w] = "get"
                                THEN consumer_sema + 1 ELSE consumer_sema
            /\ UNCHANGED <<cancelled, running, finished, result_q>>
    /\ UNCHANGED <<inputVars, producerVars, task_q, pcSendComplete, delivered,
                   ended, aborted, startCount, finBefore, closed, close_error,
                   close_cause, swallows, mapVars, genVars, cacheVars>>

\* send_complete receives its CancelledError in `await asyncio.gather`.
Cancel_send_complete ==
    /\ SendCompleteTask \in must_cancel
    /\ must_cancel' = must_cancel \ {SendCompleteTask}
    /\ pcSendComplete' = "cancelled"
    /\ UNCHANGED <<inputVars, producerVars, consumer_sema, task_q, pcConsumer,
                   running, result_q, delivered, ended, aborted, historyVars,
                   closed, cancelled, close_error, close_cause, swallows,
                   mapVars, genVars, cacheVars>>

\* Every task is done: the exit of the TaskGroup returns to the caller, with
\* BaseExceptionGroup([GeneratorExit]) out of aclose(), or with the
\* caller's own CancelledError.
Close_end ==
    /\ closed
    /\ close_error = "none"
    /\ Unfinished = {}
    /\ close_error' = IF close_cause = "aclose"
                      THEN "BaseExceptionGroup" ELSE "CancelledError"
    /\ UNCHANGED <<inputVars, producerVars, consumer_sema, task_q, pcConsumer,
                   running, result_q, pcSendComplete, delivered, ended,
                   aborted, historyVars, closed, cancelled, close_cause,
                   must_cancel, swallows, mapVars, genVars, cacheVars>>

NextClose ==
    \/ Next
    \/ Close
    \/ CancelCaller
    \/ Cancel_producer
    \/ \E w \in Workers : Cancel_consumer(w)
    \/ Cancel_send_complete
    \/ Close_end

\* The operations that catch a CancelledError and return: among those that
\* do not raise.
InitClose ==
    /\ InitRun
    /\ swallows \in SUBSET (SeqToSet(tasks) \ fails)

\* run_bounded with a caller that may close the sequence early, or be
\* cancelled while it waits for an outcome.
SpecClose == InitClose /\ [][NextClose]_vars

----------------------------------------------------------------------------
\* A source that yields without suspending

\* No worker has entered `async with consumer_sema` yet: each is still to
\* run, or suspended in the acquire of its first iteration (a worker is
\* back at the acquire only with an operation finished).
NoWorkerEntered ==
    /\ \A w \in Workers : pcConsumer[w] = "acquire"
    /\ finished = {}

\* The producer is in its first run and its next await does not suspend:
\* the source answers at once, a permit is free and no task waits for one,
\* task_q has room.
ProducerFirstRun ==
    /\ ~aborted
    /\ NoWorkerEntered
    /\ \/ pcProducer \in {"start", "fetch"}
       \/ pcProducer = "acquire" /\ consumer_sema > 0
       \/ pcProducer \in {"put", "sentinels"} /\ Len(task_q) < maxsize

ProducerStep ==
    \/ P_start
    \/ P_fetch
    \/ P_acquire
    \/ P_put
    \/ P_sentinel

OtherStep ==
    \/ \E w \in Workers : W_acquire(w)
    \/ \E w \in Workers : W_get(w)
    \/ \E w \in Workers : W_finish(w)
    \/ S_complete
    \/ R_get
    \/ R_return

\* The producer is the first task the main body creates, and the event loop
\* runs it first: with a source that never suspends it keeps control until
\* it has to wait (for a permit, or for room in task_q).  From then on the
\* loop runs the tasks in the order they became ready, the producer, once
\* woken, behind the tasks that were ready before it: any of them may step.
NextSync ==
    \/ ProducerStep
    \/ ~ProducerFirstRun /\ OtherStep

SpecSync == Init /\ [][NextSync]_vars

\* The event loop runs whatever is ready: the run goes on while any step
\* is possible.
FairSpecSync == SpecSync /\ WF_vars(NextSync)

----------------------------------------------------------------------------
\* map_by_key: the resumable mapping pipeline, a caller of run_bounded.

\* The record written for input key k: the transform's fields (result =
\* key + 1, as in the tests' transforms) with the key.
Record(k) == [key |-> k, result |-> k + 1]

\* The keys present in a file.
Keys(file) == {file[i].key : i \in 1..Len(file)}

\* The records of an input whose key is not in a set, in input order.
Remaining(in, done) == SelectSeq(in, LAMBDA k : k \notin done)

\* Before the first call: the output file is absent (read as empty) and no
\* run_bounded exists yet.
InitMap ==
    /\ limit \in 1..MaxConcurrent
    /\ \E n \in 0..MaxKeys : input = [i \in 1..n |-> i]
    /\ output = <<>>
    /\ on_error = "raise"
    /\ seen = {}
    /\ errors = {}
    /\ mapState = "idle"
    /\ runs = 0
    /\ crashes = 0
    /\ closed = FALSE
    /\ cancelled = {}
    /\ close_error = "none"
    /\ close_cause = "none"
    /\ must_cancel = {}
    /\ swallows = {}
    /\ key_source = <<>>
    /\ target_count_per_key = 1
    /\ new_value_counts = <<>>
    /\ genState = "none"
    /\ initFile = <<>>
    /\ fileAtStart = <<>>
    /\ prevClean = FALSE
    /\ CacheIdle
    /\ tasks = <<>>
    /\ fails = {}
    /\ fetched = 0
    /\ pcProducer = "done"
    /\ coroutine = 0
    /\ sentinels_put = 0
    /\ consumer_sema = limit
    /\ task_q = <<>>
    /\ pcConsumer = [w \in Workers |-> "done"]
    /\ running = [w \in Workers |-> 0]
    /\ result_q = <<>>
    /\ pcSendComplete = "done"
    /\ delivered = <<>>
    /\ ended = TRUE
    /\ aborted = FALSE
    /\ startCount = [o \in Ops |-> 0]
    /\ finished = {}
    /\ finBefore = [o \in Ops |-> {}]

\* A call of map_by_key: step 1 (audit) reads the keys of the output file,
\* step 2 (filter) keeps the input records whose key is not among them, and
\* step 3 hands one operation per remaining record to
\* run_bounded(..., limit = num_concurrent).  Which transforms fail in this
\* run is an input of the run.
M_start ==
    /\ mapState \in {"idle", "returned", "raised"}
    /\ runs < MaxRuns
    /\ runs' = runs + 1
    /\ mapState' = "running"
    /\ on_error' \in {"raise", "print"}
    /\ seen' = Keys(output)
    /\ tasks' = Remaining(input, Keys(output))
    /\ fails' \in SUBSET SeqToSet(tasks')
    /\ errors' = {}
    /\ fetched' = 0
    /\ pcProducer' = "start"
    /\ coroutine' = 0
    /\ sentinels_put' = 0
    /\ consumer_sema' = limit
    /\ task_q' = <<>>
    /\ pcConsumer' = [w \in Workers |-> "acquire"]
    /\ running' = [w \in Workers |-> 0]
    /\ result_q' = <<>>
    /\ pcSendComplete' = "gather"
    /\ delivered' = <<>>
    /\ ended' = FALSE
    /\ aborted' = FALSE
    /\ startCount' = [o \in Ops |-> 0]
    /\ finished' = {}
    /\ finBefore' = [o \in Ops |-> {}]
    /\ UNCHANGED <<limit, input, output, crashes, extVars>>

\* A loop that opens the output file for writing instead of appending: each
\* record replaces what the file held.
M_consume_Truncating ==
    /\ mapState = "running"
    /\ ~aborted
    /\ ~ended
    /\ result_q # <<>>
    /\ result_q' = Tail(result_q)
    /\ IF Head(result_q) = ResultSentinel
       THEN /\ ended' = TRUE
            /\ UNCHANGED <<delivered, output, errors>>
       ELSE /\ delivered' = Append(delivered, Head(result_q))
            /\ UNCHANGED ended
            /\ IF Head(result_q).tag = "Ok"
               THEN /\ output' = <<Record(Head(result_q).op)>>
                    /\ UNCHANGED errors
               ELSE /\ errors' = IF on_error = "raise"
                                 THEN errors \cup {Head(result_q).op}
                                 ELSE errors
                    /\ UNCHANGED output
    /\ UNCHANGED <<inputVars, producerVars, consumer_sema, task_q, pcConsumer,
                   running, pcSendComplete, aborted, historyVars,
                   input, on_error, seen, mapState, runs, crashes, extVars>>

\* The loop over run_bounded's outcomes: a successful outcome's record is
\* appended to the output file at once; a failure is collected under
\* on_error = "raise" and only logged under "print".
M_consume ==
    /\ mapState = "running"
    /\ ~aborted
    /\ ~ended
    /\ result_q # <<>>
    /\ result_q' = Tail(result_q)
    /\ IF Head(result_q) = ResultSentinel
       THEN /\ ended' = TRUE
            /\ UNCHANGED <<delivered, output, errors>>
       ELSE /\ delivered' = Append(delivered, Head(result_q))
            /\ UNCHANGED ended
            /\ IF Head(result_q).tag = "Ok"
               THEN /\ output' = Append(output, Record(Head(result_q).op))
                    /\ UNCHANGED errors
               ELSE /\ errors' = IF on_error = "raise"
                                 THEN errors \cup {Head(result_q).op}
                                 ELSE errors
                    /\ UNCHANGED output
    /\ UNCHANGED <<inputVars, producerVars, consumer_sema, task_q, pcConsumer,
                   running, pcSendComplete, aborted, historyVars,
                   input, on_error, seen, mapState, runs, crashes, extVars>>

\* The outcome sequence has ended: under "raise" the collected failures are
\* raised as one aggregate failure, otherwise the call returns.  A failure
\* of the engine itself propagates at once.
M_finish ==
    /\ mapState = "running"
    /\ ended \/ aborted
    /\ mapState' = IF aborted \/ (on_error = "raise" /\ errors # {})
                   THEN "raised" ELSE "returned"
    /\ UNCHANGED <<inputVars, producerVars, consumer_sema, task_q, pcConsumer,
                   running, result_q, pcSendComplete, delivered, ended,
                   aborted, historyVars,
                   input, output, on_error, seen, errors, runs, crashes,
                   extVars>>

\* The process dies during a run: everything but the output file is lost.
M_crash ==
    /\ mapState = "running"
    /\ mapState' = "idle"
    /\ seen' = {}
    /\ errors' = {}
    /\ tasks' = <<>>
    /\ fails' = {}
    /\ fetched' = 0
    /\ pcProducer' = "done"
    /\ coroutine' = 0
    /\ sentinels_put' = 0
    /\ consumer_sema' = limit
    /\ task_q' = <<>>
    /\ pcConsumer' = [w \in Workers |-> "done"]
    /\ running' = [w \in Workers |-> 0]
    /\ result_q' = <<>>
    /\ pcSendComplete' = "done"
    /\ delivered' = <<>>
    /\ ended' = TRUE
    /\ aborted' = FALSE
    /\ startCount' = [o \in Ops |-> 0]
    /\ finished' = {}
    /\ finBefore' = [o \in Ops |-> {}]
    /\ crashes' = crashes + 1
    /\ UNCHANGED <<limit, input, output, on_error, runs, extVars>>

NextMap ==
    \/ M_start
    \/ P_start
    \/ P_fetch
    \/ P_acquire
    \/ P_put
    \/ P_sentinel
    \/ \E w \in Workers : W_acquire(w)
    \/ \E w \in Workers : W_get(w)
    \/ \E w \in Workers : W_finish(w)
    \/ S_complete
    \/ M_consume
    \/ M_finish
    \/ M_crash

SpecMap == InitMap /\ [][NextMap]_vars

----------------------------------------------------------------------------
\* Derived state

\* The operations being executed: a worker began to await them and the
\* await has not returned or raised yet, nor been cancelled.
Executing ==
    {o \in Ops : startCount[o] > 0 /\ o \notin finished /\ o \notin cancelled}

\* The operations (not sentinels) sitting in task_q.
Queued == Cardinality({i \in 1..Len(task_q) : task_q[i] # complete_sentinel})

\* How many times the producer has asked the source for an item: none
\* before its first run; while it holds an operation (waiting for a permit
\* or for room in task_q), as many as it received; otherwise one more, the
\* request it is waiting on in the `async for`, or the one the source
\* answered with its exhaustion.
Requested ==
    IF pcProducer = "start" THEN 0
    ELSE IF coroutine # 0 THEN fetched
    ELSE fetched + 1

\* The first `limit` operations of the source.
FirstOps == {tasks[i] : i \in 1..(IF Len(tasks) < limit THEN Len(tasks) ELSE limit)}

AllOps == SeqToSet(tasks)

\* How often operation o's outcome occurs in a sequence of outcomes.
Occurrences(s, o) == Cardinality({i \in 1..Len(s) : s[i].op = o})

\* The position of operation o's outcome in the delivered sequence (0: none).
Pos(o) == IF \E i \in 1..Len(delivered) : delivered[i].op = o
          THEN CHOOSE i \in 1..Len(delivered) : delivered[i].op = o
          ELSE 0

----------------------------------------------------------------------------
\* C1: no operation is ever started twice and no outcome delivered twice;
\* when the outcome sequence has ended, every operation of the source was
\* executed exactly once and exactly one outcome per operation was
\* delivered (N outcomes in all, none lost).
C1_ExactlyOnce ==
    /\ \A o \in Ops : startCount[o] <= 1 /\ Occurrences(delivered, o) <= 1
    /\ \A i \in 1..Len(delivered) : delivered[i].op \in AllOps
    /\ ended => /\ Len(delivered) = Len(tasks)
                /\ \A o \in AllOps : /\ startCount[o] = 1
                                     /\ o \in finished
                                     /\ Occurrences(delivered, o) = 1

C1_Witness == ended /\ Len(tasks) >= 3 /\ limit >= 2

\* C2: at most `limit` operations are executing, and operation number
\* limit+1 is not started while the first `limit` are all still running.
C2_ConcurrencyBound ==
    /\ Cardinality(Executing) <= limit
    /\ (Len(tasks) > limit /\ startCount[tasks[limit + 1]] > 0)
          => FirstOps \cap finished # {}

C2_Witness ==
    /\ limit >= 2
    /\ Cardinality(Executing) = limit
    /\ Queued > 0

\* C3: under fair scheduling every run delivers all outcomes and ends, and
\* it ends only after the source is exhausted and every operation completed.
C3_Terminates ==
    /\ <>(ended /\ Len(delivered) = Len(tasks))
    /\ [](ended => (fetched = Len(tasks) /\ finished = AllOps))

\* C4 as claimed: operations queued plus operations executing never
\* exceed `limit`.
C4_Admission == Queued + Cardinality(Executing) <= limit

\* C4 as amended: operations queued plus operations executing never exceed
\* 2 * limit - 1 (at most `limit` queued, at most `limit` executing, and
\* the two bounds are never reached together).
C4_AdmissionAmended ==
    /\ Queued <= limit
    /\ Cardinality(Executing) <= limit
    /\ Queued + Cardinality(Executing) <= 2 * limit - 1

C4_Witness ==
    /\ limit >= 2
    /\ Queued + Cardinality(Executing) = 2 * limit - 1

\* C5 as claimed: for a source of more than `limit` operations, item
\* number limit+1 is not requested before one of the first `limit`
\* operations has completed.
C5_Laziness ==
    (Len(tasks) > limit /\ FirstOps \cap finished = {}) => Requested <= limit

\* C5 as amended: item number 2*limit+1 (or any later item) is not
\* requested before one of the first `limit` operations has completed.
C5_LazinessAmended ==
    (FirstOps \cap finished = {}) => Requested <= 2 * limit

C5_Witness ==
    /\ limit >= 2
    /\ Len(tasks) > limit
    /\ finished = {}
    /\ Requested = 2 * limit

\* C6: an operation that raises does not abort the engine or stop its
\* worker: its failure outcome is published exactly once like any other,
\* and when the sequence has ended every operation of the source has been
\* executed and has its outcome delivered, Err for the ones that raised.
C6_FailureIsolation ==
    /\ ~aborted
    /\ \A w \in Workers : pcConsumer[w] # "failed"
    /\ \A o \in finished :
          /\ Occurrences(result_q \o delivered, o) = 1
          /\ \A i \in 1..Len(result_q \o delivered) :
                (result_q \o delivered)[i].op = o =>
                    ((result_q \o delivered)[i].tag = "Err") = (o \in fails)
    /\ ended => \A o \in AllOps :
                   /\ o \in finished
                   /\ Pos(o) > 0
                   /\ (delivered[Pos(o)].tag = "Err") = (o \in fails)

C6_Witness ==
    /\ ended
    /\ Len(delivered) >= 3
    /\ delivered[1].tag = "Err"
    /\ delivered[2].tag = "Ok"
    /\ \E w \in Workers : startCount[delivered[1].op] = 1

\* C7: if operation a finished before operation b started, a's outcome is
\* delivered before b's.
C7_CompletionOrder ==
    \A b \in Ops : \A a \in finBefore[b] :
        Pos(b) > 0 => (Pos(a) > 0 /\ Pos(a) < Pos(b))

C7_Witness ==
    /\ Len(delivered) >= 3
    /\ delivered[1].op > delivered[2].op
    /\ delivered[1].op \in finBefore[delivered[3].op]
    /\ delivered[2].op \notin finBefore[delivered[3].op]

----------------------------------------------------------------------------
\* Derived state of map_by_key

InputKeys == SeqToSet(input)

\* How many records of a file bear key k.
KeyCount(file, k) == Cardinality({i \in 1..Len(file) : file[i].key = k})

\* How many times record r occurs in a file.
RecordCount(file, r) == Cardinality({i \in 1..Len(file) : file[i] = r})

\* The call has ended, by returning or by raising.
CallEnded == mapState \in {"returned", "raised"}

\* C8: across runs, crashed or not, the set of keys in the output file
\* never shrinks, no key is in more than one output record, and a run that
\* completes without transform failures leaves exactly one output record
\* per input key.
C8_Convergence ==
    /\ [](\A k \in Ops : KeyCount(output, k) <= 1)
    /\ []((mapState = "returned" /\ fails = {}) =>
             (Keys(output) = InputKeys
              /\ \A k \in InputKeys : KeyCount(output, k) = 1))
    /\ [][Keys(output) \subseteq Keys(output')]_vars

C8_Witness ==
    /\ crashes >= 1
    /\ mapState = "returned"
    /\ fails = {}
    /\ seen # {}
    /\ tasks # <<>>
    /\ Len(output) = Len(input)

\* C9: within one run the transform is never invoked for a key the audit
\* found in the output file, never invoked twice, and by the end of the run
\* invoked exactly once for every other input key; a run without failures
\* leaves, as a multiset of records, exactly the full mapped set.
C9_Resumability ==
    /\ \A k \in seen : startCount[k] = 0
    /\ \A k \in Ops : startCount[k] <= 1
    /\ CallEnded => \A k \in InputKeys \ seen : startCount[k] = 1
    /\ (mapState = "returned" /\ fails = {}) =>
          /\ Len(output) = Len(input)
          /\ \A k \in InputKeys : RecordCount(output, Record(k)) = 1

C9_Witness ==
    /\ mapState = "returned"
    /\ fails = {}
    /\ seen # {}
    /\ \E k \in InputKeys \ seen : startCount[k] = 1
    /\ Len(output) = Len(input)

\* C10: under on_error = "raise" a run in which some transform failed ends
\* by raising, never by returning; when it raises, the aggregate covers
\* every failed key, the output file holds the record of every key whose
\* transform succeeded in the run and holds no record of a failed key.
C10_RaiseDurability ==
    /\ (mapState = "returned" /\ on_error = "raise") => fails = {}
    /\ mapState = "raised" =>
          /\ on_error = "raise"
          /\ errors # {}
          /\ errors = fails
          /\ \A k \in SeqToSet(tasks) \ fails :
                RecordCount(output, Record(k)) = 1
          /\ \A k \in fails : k \notin Keys(output)

C10_Witness ==
    /\ mapState = "raised"
    /\ Len(tasks) >= 2
    /\ fails # {}
    /\ SeqToSet(tasks) \ fails # {}
    /\ delivered[1].tag = "Err"

----------------------------------------------------------------------------
\* C11: under on_error = "print" a failing transform never makes the call
\* raise; when the call has returned, every key whose transform succeeded in
\* the run has its record in the output file and no failed key has one,
\* whatever the order in which the operations finished.
C11_PrintSkips ==
    /\ (mapState = "raised") => on_error = "raise"
    /\ (mapState \in {"running", "returned"} /\ on_error = "print") =>
          /\ errors = {}
          /\ \A k \in fails : KeyCount(output, k) = 0
    /\ (mapState = "returned" /\ on_error = "print") =>
          \A k \in SeqToSet(tasks) \ fails : KeyCount(output, k) = 1

C11_Witness ==
    /\ mapState = "returned"
    /\ on_error = "print"
    /\ Len(delivered) >= 2
    /\ delivered[1].tag = "Ok"
    /\ delivered[2].tag = "Err"
    /\ delivered[1].op > delivered[2].op

\* C17: closing the outcome sequence (aclose) while operations are executing
\* cancels none of them: no operation a worker had begun to await is torn
\* down mid-flight.
C17_NoPreemption == (close_cause = "aclose") => cancelled = {}

\* C18: with limit = 1 and a source of N >= 2 operations that yields without
\* suspending, the operations run one at a time in source order and the run
\* delivers all N outcomes in source order and then ends.
C18_Sequential ==
    (limit = 1 /\ Len(tasks) >= 2) =>
        /\ [](Cardinality(Executing) <= 1)
        /\ [](\A i \in 1..Len(delivered) : delivered[i].op = tasks[i])
        /\ <>(ended /\ Len(delivered) = Len(tasks))

\* C20: for limit >= 2 the producer is never left waiting for a permit of
\* consumer_sema while every permit is held by a worker waiting on the
\* empty task_q (the workers having run before the source yielded).
C20_NoStarvation ==
    ~ /\ limit >= 2
      /\ pcProducer = "acquire"
      /\ coroutine # 0
      /\ consumer_sema = 0
      /\ task_q = <<>>
      /\ \A w \in Workers : pcConsumer[w] = "get"

\* The records of a file as a multiset.
FileBag(file) == [r \in SeqToSet(file) |-> RecordCount(file, r)]

\* What a run that maps the input records one after the other writes.
SequentialOutput == [i \in 1..Len(input) |-> Record(input[i])]

\* C19: a failure-free run of map_by_key on an empty output file that
\* finishes leaves, for every num_concurrent and every completion order,
\* the same multiset of records: the one a run mapping the records one
\* after the other (num_concurrent = 1) writes.
C19_OrderIndependence ==
    (mapState = "returned" /\ fails = {} /\ seen = {}) =>
        FileBag(output) = FileBag(SequentialOutput)

\* A run with two workers has returned after the operations completed in an
\* order that is not the input's.
C19_Witness ==
    /\ mapState = "returned"
    /\ fails = {}
    /\ seen = {}
    /\ limit >= 2
    /\ Len(input) >= 2
    /\ Len(output) = Len(input)
    /\ output # SequentialOutput

----------------------------------------------------------------------------
\* create_or_resume: the resumable generation pipeline

\* A record of the generated file: only its key field matters here.
GenRecord(k) == [key |-> k]

\* Step 1 (audit): the file holds a record whose key is not an expected one.
CorruptNever(file) == FALSE
Corrupt(file) == \E i \in 1..Len(file) : file[i].key \notin SeqToSet(key_source)

\* Step 2 (plan): what is missing for key k.
DeficitIgnoringFile(file, k) == target_count_per_key
Deficit(file, k) == target_count_per_key - KeyCount(file, k)

\* The (key, deficit) pairs with a positive deficit, in key_source order.
RECURSIVE Plan(_, _)
Plan(ks, file) ==
    IF ks = <<>> THEN <<>>
    ELSE (IF Deficit(file, Head(ks)) > 0
          THEN << <<Head(ks), Deficit(file, Head(ks))>> >>
          ELSE <<>>) \o Plan(Tail(ks), file)

\* Step 3: value_generator yields deficit operations per pair, pair after
\* pair; OpKeys(plan)[o] is the key of the record operation o produces.
RECURSIVE OpKeys(_)
OpKeys(plan) ==
    IF plan = <<>> THEN <<>>
    ELSE [i \in 1..Head(plan)[2] |-> Head(plan)[1]] \o OpKeys(Tail(plan))

\* The files a first run can find: absent/empty, or a few records whose
\* keys are expected ones or not.
InitFiles ==
    {<<>>}
    \cup {<<GenRecord(a)>> : a \in 1..(MaxKeys + 1)}
    \cup {<<GenRecord(a), GenRecord(b)>> :
             a \in 1..(MaxKeys + 1), b \in 1..(MaxKeys + 1)}

InitGen ==
    /\ limit \in 1..MaxConcurrent
    /\ \E n \in 1..MaxKeys : key_source = [i \in 1..n |-> i]
    /\ target_count_per_key \in 1..MaxTarget
    /\ output \in InitFiles
    /\ \A k \in SeqToSet(key_source) :
          KeyCount(output, k) <= target_count_per_key
    /\ Len(OpKeys(Plan(key_source, output))) <= MaxOps - 1
    /\ on_error \in {"raise", "print"}
    /\ initFile = output
    /\ fileAtStart = output
    /\ prevClean = FALSE
    /\ new_value_counts = <<>>
    /\ genState = "idle"
    /\ CacheIdle
    /\ input = <<>>
    /\ seen = {}
    /\ errors = {}
    /\ mapState = "none"
    /\ runs = 0
    /\ crashes = 0
    /\ closed = FALSE
    /\ cancelled = {}
    /\ close_error = "none"
    /\ close_cause = "none"
    /\ must_cancel = {}
    /\ swallows = {}
    /\ tasks = <<>>
    /\ fails = {}
    /\ fetched = 0
    /\ pcProducer = "done"
    /\ coroutine = 0
    /\ sentinels_put = 0
    /\ consumer_sema = limit
    /\ task_q = <<>>
    /\ pcConsumer = [w \in Workers |-> "done"]
    /\ running = [w \in Workers |-> 0]
    /\ result_q = <<>>
    /\ pcSendComplete = "done"
    /\ delivered = <<>>
    /\ ended = TRUE
    /\ aborted = FALSE
    /\ startCount = [o \in Ops |-> 0]
    /\ finished = {}
    /\ finBefore = [o \in Ops |-> {}]

\* A call of create_or_resume, every call with the same arguments.  The
\* audit aborts the call on a record with an unexpected key, whatever
\* on_error is; otherwise the plan is made and its operations are handed to
\* run_bounded.  Which operations fail in this run is an input of the run.
G_start ==
    /\ genState \in {"idle", "returned", "raised", "fatal"}
    /\ runs < MaxRuns
    /\ runs' = runs + 1
    /\ fileAtStart' = output
    /\ prevClean' = (genState = "returned" /\ fails = {})
    /\ errors' = {}
    /\ IF Corrupt(output)
       THEN /\ genState' = "fatal"
            /\ new_value_counts' = <<>>
            /\ tasks' = <<>>
            /\ fails' = {}
            /\ UNCHANGED <<producerVars, consumer_sema, task_q, pcConsumer,
                           running, result_q, pcSendComplete, delivered,
                           ended, aborted, historyVars>>
       ELSE /\ genState' = "running"
            /\ new_value_counts' = Plan(key_source, output)
            /\ tasks' = [i \in 1..Len(OpKeys(Plan(key_source, output))) |-> i]
            /\ fails' \in SUBSET SeqToSet(tasks')
            /\ fetched' = 0
            /\ pcProducer' = "start"
            /\ coroutine' = 0
            /\ sentinels_put' = 0
            /\ consumer_sema' = limit
            /\ task_q' = <<>>
            /\ pcConsumer' = [w \in Workers |-> "acquire"]
            /\ running' = [w \in Workers |-> 0]
            /\ result_q' = <<>>
            /\ pcSendComplete' = "gather"
            /\ delivered' = <<>>
            /\ ended' = FALSE
            /\ aborted' = FALSE
            /\ startCount' = [o \in Ops |-> 0]
            /\ finished' = {}
            /\ finBefore' = [o \in Ops |-> {}]
    /\ UNCHANGED <<limit, input, output, on_error, seen, mapState, crashes,
                   closeVars, key_source, target_count_per_key, initFile,
                   cacheVars>>

\* The loop over run_bounded's outcomes: the record of a successful
\* operation is appended to the file at once; a failure is collected under
\* on_error = "raise" and only logged under "print".
G_consume ==
    /\ genState = "running"
    /\ ~aborted
    /\ ~ended
    /\ result_q # <<>>
    /\ result_q' = Tail(result_q)
    /\ IF Head(result_q) = ResultSentinel
       THEN /\ ended' = TRUE
            /\ UNCHANGED <<delivered, output, errors>>
       ELSE /\ delivered' = Append(delivered, Head(result_q))
            /\ UNCHANGED ended
            /\ IF Head(result_q).tag = "Ok"
               THEN /\ output' = Append(output,
                          GenRecord(OpKeys(new_value_counts)[Head(result_q).op]))
                    /\ UNCHANGED errors
               ELSE /\ errors' = IF on_error = "raise"
                                 THEN errors \cup {Head(result_q).op}
                                 ELSE errors
                    /\ UNCHANGED output
    /\ UNCHANGED <<inputVars, producerVars, consumer_sema, task_q, pcConsumer,
                   running, pcSendComplete, aborted, historyVars,
                   input, on_error, seen, mapState, runs, crashes, extVars>>

\* The outcome sequence has ended: under "raise" the collected failures are
\* raised as one aggregate failure, otherwise the call returns.
G_finish ==
    /\ genState = "running"
    /\ ended \/ aborted
    /\ genState' = IF aborted \/ (on_error = "raise" /\ errors # {})
                   THEN "raised" ELSE "returned"
    /\ UNCHANGED <<inputVars, producerVars, consumer_sema, task_q, pcConsumer,
                   running, result_q, pcSendComplete, delivered, ended,
                   aborted, historyVars, mapVars, closeVars,
                   key_source, target_count_per_key, new_value_counts,
                   initFile, fileAtStart, prevClean, cacheVars>>

\* The process dies during a run: everything but the file is lost.
G_crash ==
    /\ genState = "running"
    /\ genState' = "idle"
    /\ new_value_counts' = <<>>
    /\ errors' = {}
    /\ tasks' = <<>>
    /\ fails' = {}
    /\ fetched' = 0
    /\ pcProducer' = "done"
    /\ coroutine' = 0
    /\ sentinels_put' = 0
    /\ consumer_sema' = limit
    /\ task_q' = <<>>
    /\ pcConsumer' = [w \in Workers |-> "done"]
    /\ running' = [w \in Workers |-> 0]
    /\ result_q' = <<>>
    /\ pcSendComplete' = "done"
    /\ delivered' = <<>>
    /\ ended' = TRUE
    /\ aborted' = FALSE
    /\ startCount' = [o \in Ops |-> 0]
    /\ finished' = {}
    /\ finBefore' = [o \in Ops |-> {}]
    /\ UNCHANGED <<limit, input, output, on_error, seen, mapState, runs,
                   crashes, closeVars, key_source, target_count_per_key, initFile,
                   fileAtStart, prevClean, cacheVars>>

NextGen ==
    \/ G_start
    \/ P_start
    \/ P_fetch
    \/ P_acquire
    \/ P_put
    \/ P_sentinel
    \/ \E w \in Workers : W_acquire(w)
    \/ \E w \in Workers : W_get(w)
    \/ \E w \in Workers : W_finish(w)
    \/ S_complete
    \/ G_consume
    \/ G_finish
    \/ G_crash

SpecGen == InitGen /\ [][NextGen]_vars

\* The expected keys.
ExpectedKeys == SeqToSet(key_source)

\* The call has ended: returned, raised the aggregate failure, or aborted
\* on a corrupt file.
GenEnded == genState \in {"returned", "raised", "fatal"}

\* C12: for every expected key the number of records bearing it never
\* exceeds target_count_per_key, at any point of any run, and equals it
\* once a run has returned without a generation failure.
C12_CountInvariant ==
    /\ \A k \in ExpectedKeys : KeyCount(output, k) <= target_count_per_key
    /\ (genState = "returned" /\ fails = {}) =>
          \A k \in ExpectedKeys : KeyCount(output, k) = target_count_per_key

C12_Witness ==
    /\ genState = "returned"
    /\ fails = {}
    /\ runs >= 2
    /\ initFile # <<>>
    /\ Len(output) > Len(fileAtStart)
    /\ Len(fileAtStart) > Len(initFile)
    /\ Cardinality(ExpectedKeys) >= 2

\* C13: a run of create_or_resume that follows a run which returned without
\* a generation failure, on the file that run left, executes no generation
\* operation and leaves the file unchanged, every expected key at the
\* target count.
C13_Idempotence ==
    prevClean =>
        /\ genState \in {"running", "returned", "idle"}
        /\ tasks = <<>>
        /\ \A o \in Ops : startCount[o] = 0
        /\ output = fileAtStart
        /\ \A k \in ExpectedKeys : KeyCount(output, k) = target_count_per_key

C13_Witness ==
    /\ prevClean
    /\ genState = "returned"
    /\ Len(output) > Len(initFile)
    /\ Cardinality(ExpectedKeys) >= 2

\* C14: a call of create_or_resume on a file holding a record whose key is
\* not an expected one aborts with the fatal error, under "raise" and under
\* "print" alike, and appends nothing; no call on such a file ever gets to
\* generate.
C14_CorruptionFatal ==
    /\ (genState \in {"running", "returned", "raised"}) =>
          Keys(fileAtStart) \subseteq ExpectedKeys
    /\ (genState = "fatal") =>
          /\ ~(Keys(fileAtStart) \subseteq ExpectedKeys)
          /\ on_error \in {"raise", "print"}
          /\ output = fileAtStart
          /\ tasks = <<>>

C14_Witness ==
    /\ genState = "fatal"
    /\ on_error = "print"
    /\ \E k \in ExpectedKeys : Deficit(output, k) > 0
    /\ \E k \in ExpectedKeys : KeyCount(output, k) > 0

----------------------------------------------------------------------------
\* disk_cache: the memoizing cache block

\* The values a name can be bound to.
Values == 0..MaxValue

\* The Cache Record maps names to the persisted values; the format they are
\* persisted in is not modelled.

\* The names newly bound or changed by the block, relative to the bindings
\* at its entry.
Changed == {n \in Names : bindings[n] # locals_before[n]}

\* The executor and the pipelines are not in use.
ExecutorIdle ==
    /\ limit = 1
    /\ tasks = <<>>
    /\ fails = {}
    /\ fetched = 0
    /\ pcProducer = "done"
    /\ coroutine = 0
    /\ sentinels_put = 0
    /\ consumer_sema = limit
    /\ task_q = <<>>
    /\ pcConsumer = [w \in Workers |-> "done"]
    /\ running = [w \in Workers |-> 0]
    /\ result_q = <<>>
    /\ pcSendComplete = "done"
    /\ delivered = <<>>
    /\ ended = TRUE
    /\ aborted = FALSE
    /\ startCount = [o \in Ops |-> 0]
    /\ finished = {}
    /\ finBefore = [o \in Ops |-> {}]
    /\ input = <<>>
    /\ output = <<>>
    /\ on_error = "raise"
    /\ seen = {}
    /\ errors = {}
    /\ mapState = "none"
    /\ runs = 0
    /\ crashes = 0
    /\ closed = FALSE
    /\ cancelled = {}
    /\ close_error = "none"
    /\ close_cause = "none"
    /\ must_cancel = {}
    /\ swallows = {}
    /\ key_source = <<>>
    /\ target_count_per_key = 1
    /\ new_value_counts = <<>>
    /\ genState = "none"
    /\ initFile = <<>>
    /\ fileAtStart = <<>>
    /\ prevClean = FALSE

\* Before the first execution: no file at path, the caller's names bound
\* or not.
InitCache ==
    /\ ExecutorIdle
    /\ cache_exists = FALSE
    /\ cache_record = <<>>
    /\ bindings \in [Names -> Values \cup {Unbound}]
    /\ locals_before = bindings
    /\ cachePc = "out"
    /\ steps = 0
    /\ calls = 0
    /\ callsAtEnter = 0
    /\ execs = 0
    /\ lastExec = "none"
    /\ writes = 0
    /\ raised = 0

cacheUnchanged == UNCHANGED <<inputVars, producerVars, consumer_sema, task_q,
                              pcConsumer, running, result_q, pcSendComplete,
                              delivered, ended, aborted, historyVars, mapVars,
                              closeVars, genVars>>

\* `with disk_cache(path):` when the file exists: the persisted values are
\* restored into their names and the body is skipped.
DC_restore ==
    /\ cachePc = "out"
    /\ execs < MaxExecs
    /\ cache_exists
    /\ execs' = execs + 1
    /\ locals_before' = bindings
    /\ callsAtEnter' = calls
    /\ bindings' = [n \in Names |->
                       IF n \in DOMAIN cache_record
                       THEN cache_record[n]
                       ELSE bindings[n]]
    /\ lastExec' = "restored"
    /\ UNCHANGED <<cache_exists, cache_record, cachePc, steps, calls,
                   writes, raised>>
    /\ cacheUnchanged

\* `with disk_cache(path):` when there is no file: the bindings are
\* remembered and the body starts.
DC_enter ==
    /\ cachePc = "out"
    /\ execs < MaxExecs
    /\ ~cache_exists
    /\ execs' = execs + 1
    /\ locals_before' = bindings
    /\ callsAtEnter' = calls
    /\ cachePc' = "body"
    /\ steps' = 0
    /\ UNCHANGED <<cache_exists, cache_record, bindings, calls, lastExec,
                   writes, raised>>
    /\ cacheUnchanged

\* A statement of the body: a computation is called and its result bound
\* to a name.
DC_bind ==
    /\ cachePc = "body"
    /\ steps < MaxBodySteps
    /\ \E n \in Names, v \in Values : bindings' = [bindings EXCEPT ![n] = v]
    /\ steps' = steps + 1
    /\ calls' = calls + 1
    /\ UNCHANGED <<cache_exists, cache_record, locals_before, cachePc,
                   callsAtEnter, execs, lastExec, writes,
                   raised>>
    /\ cacheUnchanged

\* The body raises: nothing is persisted, and a partial record with what
\* was bound so far is what must not be left behind.
DC_raise_Persisting ==
    /\ cachePc = "body"
    /\ cachePc' = "out"
    /\ lastExec' = "raised"
    /\ raised' = raised + 1
    /\ cache_exists' = TRUE
    /\ cache_record' = [n \in Changed |-> bindings[n]]
    /\ UNCHANGED <<bindings, locals_before, steps, calls, callsAtEnter,
                   execs, writes>>
    /\ cacheUnchanged

DC_raise ==
    /\ cachePc = "body"
    /\ cachePc' = "out"
    /\ lastExec' = "raised"
    /\ raised' = raised + 1
    /\ UNCHANGED <<cache_exists, cache_record, bindings, locals_before,
                   steps, calls, callsAtEnter, execs, writes>>
    /\ cacheUnchanged

\* The body completes: the new or changed names are persisted to path.
DC_exit ==
    /\ cachePc = "body"
    /\ cachePc' = "out"
    /\ lastExec' = "computed"
    /\ cache_exists' = TRUE
    /\ cache_record' = [n \in Changed |-> bindings[n]]
    /\ writes' = writes + 1
    /\ UNCHANGED <<bindings, locals_before, steps, calls, callsAtEnter,
                   execs, raised>>
    /\ cacheUnchanged

\* Between two executions the caller's code rebinds or unbinds a name.
DC_rebind ==
    /\ cachePc = "out"
    /\ lastExec # "none"
    /\ \E n \in Names, v \in Values \cup {Unbound} :
          /\ bindings[n] # v
          /\ bindings' = [bindings EXCEPT ![n] = v]
    /\ lastExec' = "none"
    /\ UNCHANGED <<cache_exists, cache_record, locals_before, cachePc, steps,
                   calls, callsAtEnter, execs, writes, raised>>
    /\ cacheUnchanged

\* The caller invalidates the cache: the file is deleted.
DC_invalidate ==
    /\ cachePc = "out"
    /\ cache_exists
    /\ cache_exists' = FALSE
    /\ cache_record' = <<>>
    /\ writes' = 0
    /\ lastExec' = "none"
    /\ UNCHANGED <<bindings, locals_before, cachePc, steps, calls,
                   callsAtEnter, execs, raised>>
    /\ cacheUnchanged

NextCache ==
    \/ DC_restore
    \/ DC_enter
    \/ DC_bind
    \/ DC_raise
    \/ DC_exit
    \/ DC_rebind
    \/ DC_invalidate

SpecCache == InitCache /\ [][NextCache]_vars

\* C16: the record is written at most once while it exists; the only step
\* that creates or changes it is the successful completion of a body that
\* ran with no record; a body that raises leaves no record behind.
C16_Lifecycle ==
    /\ [](writes <= 1)
    /\ [](cache_exists => writes = 1)
    /\ [][(cache_exists' /\ (~cache_exists \/ cache_record' # cache_record))
              => (/\ ~cache_exists
                  /\ cachePc = "body"
                  /\ cachePc' = "out"
                  /\ lastExec' = "computed")]_vars
    /\ [][(cachePc = "body" /\ lastExec' = "raised") => ~cache_exists']_vars

C16_Witness ==
    /\ raised >= 1
    /\ cache_exists
    /\ lastExec = "restored"
    /\ cache_record # <<>>

----------------------------------------------------------------------------
\* Shutdown and read-ahead of run_bounded


\* The sentinels sitting in task_q.
SentinelsQueued ==
    Cardinality({i \in 1..Len(task_q) : task_q[i] = complete_sentinel})

\* The workers that have left their loop.
StoppedWorkers == {w \in Workers : pcConsumer[w] = "done"}

\* The operations whose outcome is on result_q or was delivered.
Published == {(result_q \o delivered)[i].op : i \in 1..Len(result_q \o delivered)}
                \ {ResultSentinel.op}

\* A step of the shutdown: a sentinel is enqueued, a worker goes on, or
\* send_complete puts the end-of-stream marker.
ShutdownStep ==
    \/ P_sentinel
    \/ \E w \in Workers : W_acquire(w)
    \/ \E w \in Workers : W_get(w)
    \/ \E w \in Workers : W_finish(w)
    \/ S_complete

\* C21: sentinels are enqueued only once the source is exhausted, exactly
\* `limit` of them and behind every operation; every sentinel taken from
\* task_q stops exactly one worker; the end-of-stream marker is put on
\* result_q only when every worker has stopped, as its last item, with
\* task_q empty and the outcome of every operation published ahead of it;
\* and from the moment the producer reaches its sentinel loop until the
\* marker is put the shutdown is never stuck.
C21_Shutdown ==
    /\ sentinels_put <= limit
    /\ (sentinels_put > 0 \/ pcProducer \in {"sentinels", "done"}) =>
          (fetched = Len(tasks) /\ coroutine = 0)
    /\ (pcProducer = "done") => sentinels_put = limit
    /\ \A i \in 1..Len(task_q) : \A j \in i..Len(task_q) :
          task_q[i] = complete_sentinel => task_q[j] = complete_sentinel
    /\ Cardinality(StoppedWorkers) + SentinelsQueued = sentinels_put
    /\ \A i \in 1..Len(result_q) :
          result_q[i] = ResultSentinel => i = Len(result_q)
    /\ (pcSendComplete = "done") =>
          /\ StoppedWorkers = Workers
          /\ task_q = <<>>
          /\ finished = AllOps
          /\ Published = AllOps
    /\ (pcProducer \in {"sentinels", "done"} /\ pcSendComplete = "gather") =>
          ENABLED ShutdownStep

C21_Witness ==
    /\ limit >= 2
    /\ Len(tasks) >= 2
    /\ pcSendComplete = "done"
    /\ sentinels_put = limit
    /\ Len(result_q) >= 2
    /\ result_q[Len(result_q)] = ResultSentinel

\* The permits of consumer_sema held: one by the producer inside its
\* `async with`, one by every worker inside its own.
PermitsHeld ==
    (IF pcProducer = "put" THEN 1 ELSE 0)
    + Cardinality({w \in Workers : pcConsumer[w] \in {"get", "run"}})

\* C22: the producer places an operation on task_q only while it holds a
\* permit of consumer_sema, so at that moment fewer than `limit` operations
\* are executing (at least one worker is not executing an operation).
C22_ConsumerReady ==
    /\ [](PermitsHeld + consumer_sema = limit)
    /\ []((pcProducer = "put") => Cardinality(Executing) < limit)
    /\ [][(Queued' > Queued) =>
              (pcProducer = "put" /\ Cardinality(Executing) < limit
               /\ Cardinality(Executing') < limit)]_vars

\* An operation has just been enqueued while all workers but one were
\* executing.
C22_Witness ==
    /\ limit >= 2
    /\ pcProducer = "fetch"
    /\ fetched >= limit
    /\ task_q # <<>>
    /\ task_q[Len(task_q)] = tasks[fetched]
    /\ Cardinality(Executing) = limit - 1

\* The operations taken from the source that have not finished executing.
InFlight == fetched - Cardinality(finished)

\* The operation the producer holds between the source and task_q.
Held == IF coroutine # 0 THEN 1 ELSE 0

\* C23: the operations taken from the source and not yet finished are the
\* one held by the producer, those in task_q and those executing, and
\* there are never more than 2 * limit of them.
C23_ReadAhead ==
    /\ InFlight = Held + Queued + Cardinality(Executing)
    /\ InFlight <= 2 * limit

C23_Witness ==
    /\ Len(tasks) > 2 * limit
    /\ InFlight = 2 * limit
    /\ Held = 1
    /\ Cardinality(Executing) = limit

====
